---------------------------- MODULE Spec2Model ----------------------------
(***************************************************************************)
(* Model of MAVProxy/modules/mavproxy_genradio.py: the GenRadioModule      *)
(* controller, its registry of radio sources, the markers it keeps on the  *)
(* map, and the TCP connection over which it mirrors the registry to a     *)
(* peer process.                                                           *)
(*                                                                         *)
(* Every command handler runs to completion on the single control thread,  *)
(* so one action models one whole handler, including the case in which it  *)
(* is left by an exception (recorded in err).                              *)
(***************************************************************************)
EXTENDS Integers, Sequences, FiniteSets, TLC

(***************************************************************************)
(* Bounds of the model.                                                    *)
(***************************************************************************)
NumKeys == 2        \* number of distinct strings gen_id can return
MaxSources == 2     \* drop is not taken on a registry of this size
MaxOutbox == 1      \* messages in flight towards the peer
MaxInbox == 2       \* messages in flight from the peer

(***************************************************************************)
(* Values.                                                                 *)
(***************************************************************************)
\* Python's None for a latlon; a latlon is a pair <<lat, lon>>.
None == <<>>

\* Click positions used by the model.  They lie on one meridian and the
\* latitude is measured in metres of arc, so that distances are 0, 5 and 10.
Pos == {<<0, 0>>, <<5, 0>>, <<10, 0>>}

\* The values drop and remove can find in self.mpstate.click_location: the
\* position of the user's last click on the map, None before any click.
click_locations == Pos \cup {None}

\* The strings gen_id() can return: random.choice draws every character
\* independently, with no check against the keys already handed out.
gen_id == 1..NumKeys

\* SimpleRadioSource(latlon) with the key gen_id() returned for its icon.
SimpleRadioSource(latlon, key) ==
    [lat |-> latlon[1], lon |-> latlon[2], icon |-> [key |-> key]]

Abs(x) == IF x < 0 THEN -x ELSE x

\* mp_util.gps_distance: great-circle distance in metres.
gps_distance(lat1, lon1, lat2, lon2) == Abs(lat1 - lat2) + Abs(lon1 - lon2)

\* SimpleRadioSource.distance_from
distance_from(radio, lat, lon) == gps_distance(radio.lat, radio.lon, lat, lon)

\* The pickled dictionaries sent to the peer.  pickle.dumps followed by
\* pickle.loads of one whole pickle gives back an equal dictionary, so a
\* message in flight is the dictionary itself; what the byte stream does not
\* keep, the boundaries between messages, is modelled in recv.
add_msg(radio) ==
    [action |-> "add", key |-> radio.icon.key, lat |-> radio.lat, lon |-> radio.lon]
remove_msg(key) == [action |-> "remove", key |-> key]
clear_msg == [action |-> "clear"]

\* The sequence s without its i-th element.
RemoveAt(s, i) == [j \in 1..(Len(s) - 1) |-> IF j < i THEN s[j] ELSE s[j + 1]]

\* The icon keys of the sources of a registry.
KeysOf(rs) == {rs[i].icon.key : i \in 1..Len(rs)}

(***************************************************************************)
(* State.                                                                  *)
(***************************************************************************)
VARIABLES
    sock,            \* self.sock: "None", or the state of the socket object
    radio_sources,   \* self.radio_sources
    last_click,      \* self.last_click
    click,           \* the mpstate.click_location the step read, or None
    markers,         \* keys of the objects on the map
    outbox,          \* messages sent and not yet processed by the peer
    inbox,           \* messages the peer sent, not yet read by recv
    peer_keys,       \* the keys the peer holds
    nopen,           \* sockets created and not closed
    op,              \* the step that led to this state
    err,             \* the exception that ended it, or "none"
    map_calls,       \* the calls it made on the map
    out,             \* what it printed
    rcv,             \* what its sock.recv did, "none" if it called none
    eof_seen         \* a recv on the socket self.sock holds has returned b""

vars == <<sock, radio_sources, last_click, click, markers, outbox,
          inbox, peer_keys, nopen, op, err, map_calls, out, rcv,
          eof_seen>>

TypeOK ==
    /\ sock \in {"None", "unconnected", "connected", "peer_closed"}
    /\ Len(radio_sources) <= MaxSources
    /\ last_click \in Pos \cup {None}
    /\ click \in click_locations
    /\ markers \subseteq gen_id
    /\ Len(outbox) <= MaxOutbox
    /\ Len(inbox) <= MaxInbox
    /\ peer_keys \subseteq gen_id
    /\ nopen \in 0..1
    /\ eof_seen \in BOOLEAN

\* GenRadioModule.__init__: empty registry, no click acted upon, and
\* self.start() has connected the socket (a constructor whose connect
\* fails raises, and no module exists).
Init ==
    /\ sock = "connected"
    /\ radio_sources = <<>>
    /\ last_click = None
    /\ click = None
    /\ markers = {}
    /\ outbox = <<>>
    /\ inbox = <<>>
    /\ peer_keys = {}
    /\ nopen = 1
    /\ op = "init"
    /\ err = "none"
    /\ map_calls = <<>>
    /\ out = "Started on port"
    /\ rcv = "none"
    /\ eof_seen = FALSE

(***************************************************************************)
(* The collaborators: the socket and the map.                              *)
(***************************************************************************)
\* self.sock.send(...): the exception it raises on a socket in state s, or
\* "none".  self.sock is None: AttributeError.  A socket that never
\* connected, or whose peer has gone: OSError (EPIPE).
send_error(s) ==
    CASE s = "None" -> "AttributeError"
      [] s = "connected" -> "none"
      [] OTHER -> "OSError"

\* map.add_object(icon) and map.remove_object(key), as calls and as their
\* effect on the set of keys on the map.
add_object_call(key) == [call |-> "add_object", key |-> key]
remove_object_call(key) == [call |-> "remove_object", key |-> key]
add_object(mk, key) == mk \cup {key}
remove_object(mk, key) == mk \ {key}

(***************************************************************************)
(* drop                                                                    *)
(***************************************************************************)
\* Mutant of duplicate_click: the test is lost, every click is acted upon.
duplicate_click_never(lc, latlon) == FALSE

\* The click deduplication test of drop and remove.
duplicate_click(lc, latlon) == lc # None /\ lc = latlon

drop ==
    /\ Len(radio_sources) < MaxSources
    /\ Len(outbox) < MaxOutbox
    /\ op' = "drop"
    /\ UNCHANGED <<sock, inbox, peer_keys, nopen>>
    /\ click' \in click_locations
    /\ LET latlon == click' IN
       IF duplicate_click(last_click, latlon)
       THEN /\ err' = "none"
            /\ map_calls' = <<>>
            /\ out' = ""
            /\ rcv' = "none"
            /\ eof_seen' = eof_seen
            /\ UNCHANGED <<radio_sources, last_click, markers, outbox>>
       ELSE /\ last_click' = latlon
            /\ IF latlon # None
               THEN \E key \in gen_id :
                      LET radio == SimpleRadioSource(latlon, key) IN
                      /\ radio_sources' = Append(radio_sources, radio)
                      /\ err' = send_error(sock)
                      /\ IF send_error(sock) = "none"
                         THEN /\ outbox' = Append(outbox, add_msg(radio))
                              /\ markers' = add_object(markers, key)
                              /\ map_calls' = <<add_object_call(key)>>
                              /\ out' = ""
                              /\ rcv' = "none"
                              /\ eof_seen' = eof_seen
                         ELSE /\ map_calls' = <<>>
                              /\ out' = ""
                              /\ rcv' = "none"
                              /\ eof_seen' = eof_seen
                              /\ UNCHANGED <<outbox, markers>>
               ELSE /\ err' = "none"
                    /\ map_calls' = <<>>
                    /\ out' = ""
                    /\ rcv' = "none"
                    /\ eof_seen' = eof_seen
                    /\ UNCHANGED <<radio_sources, markers, outbox>>

(***************************************************************************)
(* clearall                                                                *)
(***************************************************************************)
RECURSIVE remove_all(_, _)
\* The map after the loop of clearall over the registry rs.
remove_all(mk, rs) ==
    IF rs = <<>> THEN mk
    ELSE remove_all(remove_object(mk, Head(rs).icon.key), Tail(rs))

\* The map calls of that loop: one per source, in registry order.
clearall_calls(rs) == [i \in 1..Len(rs) |-> remove_object_call(rs[i].icon.key)]

\* Mutant of clearall_msgs: one 'remove' per source instead of one 'clear'.
clearall_msgs_per_source(rs) == [i \in 1..Len(rs) |-> remove_msg(rs[i].icon.key)]

\* What clearall sends for a registry rs.
clearall_msgs(rs) == <<clear_msg>>

\* Mutant of clearall_body: the 'clear' is sent first, and the registry and
\* the map are cleared only once the send has succeeded.
clearall_body_send_first ==
    /\ err' = send_error(sock)
    /\ out' = ""
    /\ rcv' = "none"
    /\ eof_seen' = eof_seen
    /\ IF send_error(sock) = "none"
       THEN /\ markers' = remove_all(markers, radio_sources)
            /\ map_calls' = clearall_calls(radio_sources)
            /\ radio_sources' = <<>>
            /\ outbox' = outbox \o clearall_msgs(radio_sources)
       ELSE /\ map_calls' = <<>>
            /\ UNCHANGED <<radio_sources, markers, outbox>>

\* The body of clearall, shared by the clearall command and stop.
clearall_body ==
    /\ markers' = remove_all(markers, radio_sources)
    /\ map_calls' = clearall_calls(radio_sources)
    /\ out' = ""
    /\ rcv' = "none"
    /\ eof_seen' = eof_seen
    /\ radio_sources' = <<>>
    /\ err' = send_error(sock)
    /\ IF send_error(sock) = "none"
       THEN outbox' = outbox \o clearall_msgs(radio_sources)
       ELSE UNCHANGED outbox

clearall ==
    /\ Len(outbox) < MaxOutbox
    /\ op' = "clearall"
    /\ clearall_body
    /\ click' = None
    /\ UNCHANGED <<sock, last_click, inbox, peer_keys, nopen>>

(***************************************************************************)
(* remove                                                                  *)
(***************************************************************************)
\* The initial closest_distance of _remove_latlon.
Threshold == 10

\* Mutant of is_closer: <= for <, so that the last source at the minimum
\* distance wins and a source at the threshold itself is taken.
is_closer_or_equal(d, closest_distance) == d <= closest_distance

\* The test of the scan: a source at distance d replaces the closest so far.
is_closer(d, closest_distance) == d < closest_distance

RECURSIVE closest_scan(_, _, _, _, _)
\* The loop of _remove_latlon from index i on; closest is the index of the
\* source held in closest, 0 for None.
closest_scan(rs, latlon, i, closest, closest_distance) ==
    IF i > Len(rs) THEN closest
    ELSE LET d == distance_from(rs[i], latlon[1], latlon[2]) IN
         IF is_closer(d, closest_distance)
         THEN closest_scan(rs, latlon, i + 1, i, d)
         ELSE closest_scan(rs, latlon, i + 1, closest, closest_distance)

\* Mutant of closest_index: the scan starts from the first source instead of
\* from None and the threshold, so that the nearest source is always found.
closest_index_no_threshold(rs, latlon) ==
    IF rs = <<>> THEN 0
    ELSE closest_scan(rs, latlon, 2, 1, distance_from(rs[1], latlon[1], latlon[2]))

closest_index(rs, latlon) == closest_scan(rs, latlon, 1, 0, Threshold)

\* _remove_latlon(latlon)
remove_latlon(latlon) ==
    IF latlon # None
    THEN LET closest == closest_index(radio_sources, latlon) IN
         IF closest # 0
         THEN LET key == radio_sources[closest].icon.key IN
              /\ radio_sources' = RemoveAt(radio_sources, closest)
              /\ markers' = remove_object(markers, key)
              /\ map_calls' = <<remove_object_call(key)>>
              /\ out' = ""
              /\ rcv' = "none"
              /\ eof_seen' = eof_seen
              /\ err' = send_error(sock)
              /\ IF send_error(sock) = "none"
                 THEN outbox' = Append(outbox, remove_msg(key))
                 ELSE UNCHANGED outbox
         ELSE /\ err' = "none"
              /\ map_calls' = <<>>
              /\ out' = "No suitable radio sources near click"
              /\ rcv' = "none"
              /\ eof_seen' = eof_seen
              /\ UNCHANGED <<radio_sources, markers, outbox>>
    ELSE /\ err' = "none"
         /\ map_calls' = <<>>
         /\ out' = ""
         /\ rcv' = "none"
         /\ eof_seen' = eof_seen
         /\ UNCHANGED <<radio_sources, markers, outbox>>

remove ==
    /\ Len(outbox) < MaxOutbox
    /\ op' = "remove"
    /\ UNCHANGED <<sock, inbox, peer_keys, nopen>>
    /\ click' \in click_locations
    /\ LET latlon == click' IN
       IF duplicate_click(last_click, latlon)
       THEN /\ err' = "none"
            /\ map_calls' = <<>>
            /\ out' = ""
            /\ rcv' = "none"
            /\ eof_seen' = eof_seen
            /\ UNCHANGED <<radio_sources, last_click, markers, outbox>>
       ELSE /\ last_click' = latlon
            /\ remove_latlon(latlon)

(***************************************************************************)
(* start, stop, restart                                                    *)
(***************************************************************************)
\* The outcomes of sock.connect(("127.0.0.1", port)): the state of the new
\* socket and the exception raised.
connect_outcomes ==
    {[sock |-> "connected", err |-> "none"],
     [sock |-> "unconnected", err |-> "ConnectionRefusedError"]}

\* Mutant of start_body: the existing socket is dropped without being closed.
start_body_no_close(s, n) ==
    \E c \in connect_outcomes :
        /\ sock' = c.sock
        /\ err' = c.err
        /\ nopen' = n + 1
        /\ inbox' = <<>>
        /\ out' = IF c.err = "none" THEN "Started on port" ELSE ""
        /\ rcv' = "none"
        /\ eof_seen' = FALSE

\* The body of start on a controller whose self.sock is s and which has n
\* sockets open: an existing socket is closed, a new one is created and
\* assigned to self.sock, then connected.
start_body(s, n) ==
    \E c \in connect_outcomes :
        /\ sock' = c.sock
        /\ err' = c.err
        /\ nopen' = (IF s # "None" THEN n - 1 ELSE n) + 1
        /\ inbox' = <<>>
        /\ out' = IF c.err = "none" THEN "Started on port" ELSE ""
        /\ rcv' = "none"
        /\ eof_seen' = FALSE

start ==
    /\ op' = "start"
    /\ start_body(sock, nopen)
    /\ map_calls' = <<>>
    /\ click' = None
    /\ UNCHANGED <<radio_sources, last_click, markers, outbox, peer_keys>>

\* stop: clearall, then close.  An exception in clearall leaves stop before
\* the close.
stop ==
    /\ Len(outbox) < MaxOutbox
    /\ op' = "stop"
    /\ clearall_body
    /\ IF send_error(sock) = "none"
       THEN /\ sock' = "None"
            /\ nopen' = IF sock # "None" THEN nopen - 1 ELSE nopen
            /\ inbox' = <<>>
       ELSE UNCHANGED <<sock, nopen, inbox>>
    /\ click' = None
    /\ UNCHANGED <<last_click, peer_keys>>

\* restart: stop, then start.  An exception in stop leaves restart before
\* the start; an exception in start is the exception of restart.
restart ==
    /\ Len(outbox) < MaxOutbox
    /\ op' = "restart"
    /\ markers' = remove_all(markers, radio_sources)
    /\ map_calls' = clearall_calls(radio_sources)
    /\ radio_sources' = <<>>
    /\ IF send_error(sock) = "none"
       THEN /\ outbox' = outbox \o clearall_msgs(radio_sources)
            /\ start_body("None", IF sock # "None" THEN nopen - 1 ELSE nopen)
       ELSE /\ err' = send_error(sock)
            /\ out' = ""
            /\ rcv' = "none"
            /\ eof_seen' = eof_seen
            /\ UNCHANGED <<outbox, sock, nopen, inbox>>
    /\ click' = None
    /\ UNCHANGED <<last_click, peer_keys>>

(***************************************************************************)
(* idle_task                                                               *)
(***************************************************************************)
RECURSIVE remove_loop(_, _, _, _, _)
\* The loop of idle_task over self.radio_sources from index i on, for a
\* 'remove' message with the given key.  The list is changed while it is
\* iterated: the iterator's index moves on by one after every element,
\* also after one that was removed.
remove_loop(rs, mk, calls, i, key) ==
    IF i > Len(rs)
    THEN [radio_sources |-> rs, markers |-> mk, map_calls |-> calls]
    ELSE IF rs[i].icon.key = key
         THEN remove_loop(RemoveAt(rs, i), remove_object(mk, key),
                          Append(calls, remove_object_call(key)), i + 1, key)
         ELSE remove_loop(rs, mk, calls, i + 1, key)

\* The numbers of whole messages one sock.recv(1024) can return when the
\* messages of q are waiting: TCP keeps no message boundaries and the
\* messages are far shorter than 1024 bytes.
recv_counts(q) == 1..Len(q)

\* Payloads a peer can send that are not the messages of the protocol:
\* bytes that are no pickle, and a 'remove' dictionary without a key.
garbage == [malformed |-> TRUE]
keyless_remove == [action |-> "remove"]
malformed_payloads == {garbage, keyless_remove}

\* pickle.loads(p) returns a dictionary (with an "action") for payload p;
\* otherwise it raises.
is_pickle(p) == "action" \in DOMAIN p

\* Mutant of has_socket: the test of self.sock is lost.
has_socket_always(s) == TRUE

\* The test that guards the poll of idle_task.
has_socket(s) == s # "None"

\* self.sock.recv(1024) with nothing waiting on a socket in state s: None
\* has no recv, a socket that never connected raises OSError, a connected
\* one raises socket.timeout after 0.5 s, and one whose peer closed returns
\* b"" at once.
recv_nothing(s) ==
    CASE s = "None" -> [rcv |-> "error", err |-> "AttributeError"]
      [] s = "unconnected" -> [rcv |-> "error", err |-> "OSError"]
      [] s = "connected" -> [rcv |-> "timeout", err |-> "timeout"]
      [] OTHER -> [rcv |-> "eof", err |-> "none"]

idle_task ==
    /\ op' = "idle_task"
    /\ click' = None
    /\ out' = ""
    /\ UNCHANGED <<sock, last_click, outbox, peer_keys, nopen>>
    /\ IF ~has_socket(sock)
       THEN /\ err' = "none"
            /\ rcv' = "none"
            /\ eof_seen' = eof_seen
            /\ map_calls' = <<>>
            /\ UNCHANGED <<radio_sources, markers, inbox>>
       ELSE IF inbox = <<>>
       THEN /\ err' = recv_nothing(sock).err
            /\ rcv' = recv_nothing(sock).rcv
            /\ eof_seen' = (eof_seen \/ recv_nothing(sock).rcv = "eof")
            /\ map_calls' = <<>>
            /\ UNCHANGED <<radio_sources, markers, inbox>>
       ELSE \E n \in recv_counts(inbox) :
              \* pickle.loads decodes the first pickle of the bytes read
              \* and ignores what follows it.
              LET d == Head(inbox) IN
              /\ inbox' = SubSeq(inbox, n + 1, Len(inbox))
              /\ rcv' = "data"
              /\ eof_seen' = eof_seen
              /\ IF ~is_pickle(d)
                 THEN /\ err' = "UnpicklingError"
                      /\ map_calls' = <<>>
                      /\ UNCHANGED <<radio_sources, markers>>
                 ELSE IF d.action # "remove" \/ radio_sources = <<>>
                 THEN /\ err' = "none"
                      /\ map_calls' = <<>>
                      /\ UNCHANGED <<radio_sources, markers>>
                 ELSE IF "key" \notin DOMAIN d
                 THEN \* d["key"] in the test of the first iteration
                      /\ err' = "KeyError"
                      /\ map_calls' = <<>>
                      /\ UNCHANGED <<radio_sources, markers>>
                 ELSE LET r == remove_loop(radio_sources, markers, <<>>, 1, d.key) IN
                      /\ err' = "none"
                      /\ radio_sources' = r.radio_sources
                      /\ markers' = r.markers
                      /\ map_calls' = r.map_calls

(***************************************************************************)
(* The environment: the peer.                                              *)
(***************************************************************************)
\* The keys the peer holds after it processed message m.
peer_apply(keys, m) ==
    CASE m.action = "add" -> keys \cup {m.key}
      [] m.action = "remove" -> keys \ {m.key}
      [] m.action = "clear" -> {}

\* The peer reads and processes the next message.
peer_recv ==
    /\ outbox # <<>>
    /\ peer_keys' = peer_apply(peer_keys, Head(outbox))
    /\ outbox' = Tail(outbox)
    /\ op' = "peer_recv"
    /\ err' = "none"
    /\ map_calls' = <<>>
    /\ out' = ""
    /\ rcv' = "none"
    /\ eof_seen' = eof_seen
    /\ click' = None
    /\ UNCHANGED <<sock, radio_sources, last_click, markers, inbox, nopen>>

\* The peer removes one of its sources and tells the controller.
peer_remove ==
    /\ sock = "connected"
    /\ Len(inbox) < MaxInbox
    /\ \E k \in peer_keys :
        /\ peer_keys' = peer_keys \ {k}
        /\ inbox' = Append(inbox, remove_msg(k))
    /\ op' = "peer_remove"
    /\ err' = "none"
    /\ map_calls' = <<>>
    /\ out' = ""
    /\ rcv' = "none"
    /\ eof_seen' = eof_seen
    /\ click' = None
    /\ UNCHANGED <<sock, radio_sources, last_click, markers, outbox, nopen>>

\* The peer sends a payload that is no message of the protocol.
peer_send_malformed ==
    /\ sock = "connected"
    /\ Len(inbox) < MaxInbox
    /\ \E p \in malformed_payloads : inbox' = Append(inbox, p)
    /\ op' = "peer_send_malformed"
    /\ err' = "none"
    /\ map_calls' = <<>>
    /\ out' = ""
    /\ rcv' = "none"
    /\ eof_seen' = eof_seen
    /\ click' = None
    /\ UNCHANGED <<sock, radio_sources, last_click, markers, outbox, peer_keys,
                   nopen>>

\* The peer closes the connection; what it had not read is lost.
peer_close ==
    /\ sock = "connected"
    /\ sock' = "peer_closed"
    /\ outbox' = <<>>
    /\ op' = "peer_close"
    /\ err' = "none"
    /\ map_calls' = <<>>
    /\ out' = ""
    /\ rcv' = "none"
    /\ eof_seen' = eof_seen
    /\ click' = None
    /\ UNCHANGED <<radio_sources, last_click, markers, inbox, peer_keys, nopen>>

(***************************************************************************)
(* Specification.                                                          *)
(***************************************************************************)
Next ==
    \/ start
    \/ stop
    \/ restart
    \/ drop
    \/ remove
    \/ clearall
    \/ idle_task
    \/ peer_recv
    \/ peer_remove
    \/ peer_send_malformed
    \/ peer_close

Spec == Init /\ [][Next]_vars

(***************************************************************************)
(* The controller with the connection up throughout: no start, stop or     *)
(* restart, and a peer that never closes.  Every send succeeds.            *)
(***************************************************************************)
NextSync ==
    \/ drop
    \/ remove
    \/ clearall
    \/ idle_task
    \/ peer_recv
    \/ peer_remove

SpecSync == Init /\ [][NextSync]_vars

(***************************************************************************)
(* Properties.                                                             *)
(***************************************************************************)

\* C1: in every reachable state the icon keys of the sources in
\* radio_sources are exactly the keys of the markers on the map.
C1_RegistryMatchesMarkers == KeysOf(radio_sources) = markers

\* C2: with the connection up and every send successful, once no message
\* is in flight in either direction, the peer holds exactly the icon keys
\* of radio_sources.
C2_PeerAgreesWhenQuiet ==
    (inbox = <<>> /\ outbox = <<>>) => peer_keys = KeysOf(radio_sources)

\* The distance of the i-th source of rs from the click ll.
DistanceAt(rs, ll, i) == distance_from(rs[i], ll[1], ll[2])

\* C3: a drop or remove whose click equals last_click changes neither
\* radio_sources, nor the markers, nor last_click, and sends nothing; so the
\* second of two consecutive drops at one click adds no source and sends no
\* 'add'.
C3_DuplicateClickIsNoOp ==
    [][ /\ (op' \in {"drop", "remove"} /\ click' = last_click)
           => UNCHANGED <<radio_sources, markers, last_click, outbox>>
        /\ (op = "drop" /\ op' = "drop" /\ click' = click)
           => UNCHANGED <<radio_sources, outbox>>
      ]_vars

\* A drop on a connected controller, at a real click, that made no map call:
\* the click was the one last acted upon, and sources exist.
C3_Witness ==
    /\ op = "drop"
    /\ click # None
    /\ click = last_click
    /\ sock = "connected"
    /\ err = "none"
    /\ map_calls = <<>>
    /\ radio_sources # <<>>

\* The reference selection of remove-nearest: the first source, in insertion
\* order, at the minimum distance from the click, if that minimum is
\* strictly less than 10; 0 if there is none.
NearestWithin10(rs, ll) ==
    LET near == {i \in 1..Len(rs) :
                    /\ DistanceAt(rs, ll, i) < 10
                    /\ \A j \in 1..Len(rs) :
                          /\ DistanceAt(rs, ll, i) <= DistanceAt(rs, ll, j)
                          /\ (j < i => DistanceAt(rs, ll, i) < DistanceAt(rs, ll, j))}
    IN IF near = {} THEN 0 ELSE CHOOSE i \in near : TRUE

\* C4: a remove that acts on its click removes exactly the source the
\* reference selection names and keeps every other source in its order; it
\* removes nothing when the reference names none.
C4_RemovesReferenceNearest ==
    [][ (op' = "remove" /\ click' # None /\ click' # last_click)
        => LET i == NearestWithin10(radio_sources, click') IN
           radio_sources' = IF i = 0 THEN radio_sources
                            ELSE RemoveAt(radio_sources, i)
      ]_vars

\* A remove took a source off the map and left another in the registry.
C4_Witness ==
    /\ op = "remove"
    /\ Len(map_calls) = 1
    /\ radio_sources # <<>>

\* C5: a remove with every source at distance 10 or more from the click (or
\* with an empty registry) leaves radio_sources and the markers unchanged,
\* makes no map call and sends nothing; when it acts on the click it reports
\* that no suitable source is near.
C5_NoSourceNearIsNoOp ==
    [][ (/\ op' = "remove"
         /\ click' # None
         /\ \A i \in 1..Len(radio_sources) :
               DistanceAt(radio_sources, click', i) >= 10)
        => /\ UNCHANGED <<radio_sources, markers, outbox>>
           /\ map_calls' = <<>>
           /\ err' = "none"
           /\ click' # last_click => out' = "No suitable radio sources near click"
      ]_vars

\* A remove reported that no source is near, on a registry that has one.
C5_Witness ==
    /\ op = "remove"
    /\ out = "No suitable radio sources near click"
    /\ radio_sources # <<>>

\* C6: clearall on a connected controller sends exactly one 'clear' and
\* nothing else, empties radio_sources, calls remove_object once for every
\* source, and leaves no marker on the map.
C6_ClearallSendsOneClear ==
    [][ (op' = "clearall" /\ sock = "connected")
        => /\ outbox' = Append(outbox, clear_msg)
           /\ radio_sources' = <<>>
           /\ markers' = {}
           /\ Len(map_calls') = Len(radio_sources)
           /\ \A i \in 1..Len(radio_sources) :
                 map_calls'[i] = remove_object_call(radio_sources[i].icon.key)
      ]_vars

\* A clearall of two sources, its 'clear' the only message in flight.
C6_Witness ==
    /\ op = "clearall"
    /\ err = "none"
    /\ Len(map_calls) = 2
    /\ outbox = <<clear_msg>>
    /\ radio_sources = <<>>

\* The registry rs without the sources whose icon key is k.
WithoutKey(rs, k) == SelectSeq(rs, LAMBDA r : r.icon.key # k)

\* C7: a tick that receives {action: 'remove', key: K} leaves no source with
\* key K in radio_sources and no marker K on the map, keeps every source
\* with another key, and sends nothing; if K matches no source the registry
\* is unchanged.
C7_PeerRemoveIsApplied ==
    [][ (/\ op' = "idle_task"
         /\ sock # "None"
         /\ inbox # <<>>
         /\ Head(inbox) \in {remove_msg(k) : k \in gen_id})
        => LET K == Head(inbox).key IN
           /\ K \notin KeysOf(radio_sources')
           /\ K \notin markers'
           /\ radio_sources' = WithoutKey(radio_sources, K)
           /\ UNCHANGED outbox
      ]_vars

\* C8: after a start or restart whose connect failed, self.sock is None.
C8_FailedConnectLeavesIdle ==
    (op \in {"start", "restart"} /\ err = "ConnectionRefusedError")
    => sock = "None"

\* C9: a stop on a controller that has a connection sends the 'clear' if the
\* send succeeds, and whatever the send does, leaves radio_sources empty and
\* self.sock None.
C9_StopReturnsToIdle ==
    [][ (op' = "stop" /\ sock \in {"connected", "peer_closed"})
        => /\ radio_sources' = <<>>
           /\ sock' = "None"
           /\ err' = "none" => outbox' = Append(outbox, clear_msg)
      ]_vars

\* C10: a drop, remove or clearall whose send fails keeps the registry change
\* it made before the send (the new source is the last of radio_sources, the
\* selected source is gone, the registry is empty), leaves self.sock as it
\* was and sends nothing.
C10_FailedSendKeepsMutation ==
    [][ (op' \in {"drop", "remove", "clearall"} /\ err' # "none")
        => /\ UNCHANGED <<sock, outbox, nopen>>
           /\ op' = "drop" =>
                /\ Len(radio_sources') = Len(radio_sources) + 1
                /\ SubSeq(radio_sources', 1, Len(radio_sources)) = radio_sources
                /\ <<radio_sources'[Len(radio_sources')].lat,
                     radio_sources'[Len(radio_sources')].lon>> = click'
           /\ op' = "remove" =>
                /\ NearestWithin10(radio_sources, click') # 0
                /\ radio_sources' =
                      RemoveAt(radio_sources, NearestWithin10(radio_sources, click'))
           /\ op' = "clearall" => radio_sources' = <<>>
      ]_vars

\* The send of a remove failed after the source was taken out.
C10_Witness ==
    /\ op = "remove"
    /\ err = "OSError"
    /\ Len(map_calls) = 1

\* C11: a tick on a connected controller with nothing to read before the
\* timeout completes without an exception and leaves radio_sources, the
\* markers and self.sock unchanged.
C11_QuietTickIsNotAnError ==
    [][ (op' = "idle_task" /\ sock = "connected" /\ inbox = <<>>)
        => /\ err' = "none"
           /\ UNCHANGED <<radio_sources, markers, sock>>
      ]_vars

\* C12: a tick that reads zero bytes (the peer closed) leaves the registry
\* unchanged, and no later tick on the same connection completes silently
\* again: it ends with an error.
C12_ClosedChannelIsStale ==
    [][ /\ (op' = "idle_task" /\ rcv' = "eof")
           => UNCHANGED <<radio_sources, markers>>
        /\ (eof_seen /\ op' = "idle_task" /\ sock' = sock)
           => err' # "none"
      ]_vars

\* C13: a tick that reads a malformed payload leaves radio_sources
\* unchanged and ends the session: afterwards the controller no longer holds
\* the connection as a live one.
C13_MalformedEndsSession ==
    [][ (/\ op' = "idle_task"
         /\ sock = "connected"
         /\ inbox # <<>>
         /\ Head(inbox) \in malformed_payloads)
        => /\ UNCHANGED radio_sources
           /\ sock' # "connected"
      ]_vars

\* C14: no two sources in radio_sources have the same icon key.
C14_KeysUnique ==
    \A i, j \in 1..Len(radio_sources) :
        i # j => radio_sources[i].icon.key # radio_sources[j].icon.key

\* C15: a tick on a controller whose connection stop has closed (self.sock
\* is None) calls no recv, raises nothing and changes neither radio_sources
\* nor the markers; a tick on the fresh, unconnected socket of a restart
\* reads no data and changes neither.
C15_TickAfterStopIsClean ==
    [][ /\ (op' = "idle_task" /\ sock = "None")
           => /\ rcv' = "none"
              /\ err' = "none"
              /\ UNCHANGED <<sock, radio_sources, markers, inbox, outbox, nopen>>
        /\ (op' = "idle_task" /\ sock = "unconnected")
           => /\ rcv' # "data"
              /\ UNCHANGED <<sock, radio_sources, markers>>
      ]_vars

\* A tick ran on the controller after a stop had closed its only socket.
C15_Witness ==
    /\ op = "idle_task"
    /\ sock = "None"
    /\ nopen = 0
    /\ rcv = "none"
    /\ err = "none"

\* C16: a tick that reads takes exactly one message off the inbound stream
\* and leaves the following ones for later ticks.
C16_OneMessagePerTick ==
    [][ (op' = "idle_task" /\ sock # "None" /\ inbox # <<>>)
        => inbox' = Tail(inbox)
      ]_vars

\* C17: whenever self.sock is None, radio_sources is empty.
C17_IdleHasEmptyRegistry == sock = "None" => radio_sources = <<>>

\* C18: a stop with self.sock already None completes without an exception
\* and leaves self.sock None and radio_sources empty; a restart with
\* self.sock None goes on to its start, which creates a socket.
C18_TeardownIsIdempotent ==
    [][ /\ (op' = "stop" /\ sock = "None")
           => (err' = "none" /\ sock' = "None" /\ radio_sources' = <<>>)
        /\ (op' = "restart" /\ sock = "None")
           => sock' # "None"
      ]_vars

\* C19: the number of sockets created and not closed is 1 while self.sock
\* holds a socket and 0 while it is None; and start changes neither
\* radio_sources, nor the markers, nor last_click, and sends nothing.
C19_OneSocketNoLeak ==
    [][ /\ nopen' = (IF sock' = "None" THEN 0 ELSE 1)
        /\ op' = "start"
           => /\ UNCHANGED <<radio_sources, markers, last_click, outbox>>
              /\ sock' # "None"
      ]_vars

\* A start on a controller that held a socket and a registered source.
C19_Witness ==
    /\ op = "start"
    /\ sock = "connected"
    /\ nopen = 1
    /\ markers # {}
    /\ radio_sources # <<>>

====
